---- MODULE Spec2Model ----
(***************************************************************************)
(* A model of qc_pipeline.py: the coordinator (__main__), the per-file     *)
(* worker tasks run by the multiprocessing pool, and the two callbacks     *)
(* (worker_callback, worker_error) run by the pool's result handler in the *)
(* coordinating process.                                                   *)
(*                                                                         *)
(* Strings are sequences of tokens.  A report file is the sequence of the  *)
(* tokens written to it; "TAB", "NL" and "PIPE" stand for the characters   *)
(* '\t', '\n' and '|'.                                                     *)
(***************************************************************************)
EXTENDS Integers, Sequences, FiniteSets, TLC

(* ------------------------------ bounds --------------------------------- *)
\* at most this many paths match the input pattern
NumFiles == 2

(* ------------------------ the run's environment ------------------------ *)
\* Paths the input pattern can match.  Two of them share a base name.
AllPaths == <<"x/a", "x/b", "y/a">>

\* os.path.basename
basename(p) == CASE p = "x/a" -> "a" [] p = "y/a" -> "a" [] p = "x/b" -> "b"

BaseNames == {basename(AllPaths[i]) : i \in 1..Len(AllPaths)}

\* glob.glob(args.input_pattern): the matching paths, in enumeration order.
FileLists ==
  LET Idx == UNION {[1..n -> 1..Len(AllPaths)] : n \in 0..NumFiles}
      Inc == {f \in Idx : \A i, j \in DOMAIN f : i < j => f[i] < f[j]}
  IN  {[i \in DOMAIN f |-> AllPaths[f[i]]] : f \in Inc}

\* Step references a configuration file can list under [pipeline] steps.
\* Module m exists and defines f and g; module n does not exist; m has no h.
StepRefs == {"m.f:2", "m.g", "m.h", "n.f"}

\* process.split('.')
mod_name(ref) ==
  CASE ref = "m.f:2" -> "m" [] ref = "m.g" -> "m" [] ref = "m.h" -> "m" [] ref = "n.f" -> "n"

\* process.split('.')[1].split(":")[0]
func_name(ref) ==
  CASE ref = "m.f:2" -> "f" [] ref = "m.g" -> "g" [] ref = "m.h" -> "h" [] ref = "n.f" -> "f"

\* import_module succeeds
ModuleExists(m) == m = "m"

\* getattr(mod, func_name) succeeds
FunctionExists(m, f) == m = "m" /\ f \in {"f", "g"}

\* The [pipeline] steps of the configuration file: one step, or m.f followed
\* by a different second step.
Configs ==
  {<<r>> : r \in StepRefs \ {"m.g"}} \cup {<<"m.f:2", r>> : r \in StepRefs \ {"m.f:2"}}

\* default=float("inf") of --batch
Unbounded == -1

BatchSizes == {1, Unbounded}

\* Report files: results.tsv is <<"results", 0>>, results_<b>.tsv is <<"results", b>>.
ReportNames == {<<"results", b>> : b \in 0..(NumFiles + 1)}

NoFile == <<"none", 0>>

\* A report left behind by an earlier run: a header and one row.
OldReport == <<"name", "TAB", "warnings", "NL", "old", "TAB", "NL">>

(* ------------------------------- state --------------------------------- *)
VARIABLES
  args,           \* parsed command line: force, batch, nthreads
  config,         \* the [pipeline] steps of the configuration file
  files,          \* what glob.glob(args.input_pattern) returns
  pc,             \* position of __main__
  processQueue,   \* result of load_pipeline
  pool,           \* "undefined", "running", "closed"
  filei,          \* index of the next file to submit
  outRoot,        \* does args.outdir exist
  dirs,           \* per-file output directory: "absent", "old", "new"
  reports,        \* report files: [exists, data]
  csv_report,     \* [name, open]: the global report handle
  overwrite_flag, \* "w" or "a"
  batch,          \* global batch
  nfiledone,      \* global nfiledone
  first,          \* global first
  failed,         \* global failed
  summary,        \* what the end-of-run loop has logged
  tasks,          \* per submitted file: the task and its record
  order,          \* the records worker_callback received, with the report file
  start           \* the file system before the run (for stating properties)

vars == <<args, config, files, pc, processQueue, pool, filei, outRoot, dirs,
          reports, csv_report, overwrite_flag, batch, nfiledone, first,
          failed, summary, tasks, order, start>>

runvars == <<args, config, files, start>>

(* --------------------------- ResultRecord ------------------------------ *)
\* Keys a pipeline step may declare in s["output"]; step k uses Keys[k].
Keys == <<"name", "k2", "k3">>

NoRecord == [fname |-> "", output |-> <<>>, keys |-> {}, warnings |-> <<>>,
             completed |-> <<>>, os_handle |-> "None"]

\* BaseImage.BaseImage(fname, fname_outdir, params)
BaseImage(fname) == [fname |-> fname, output |-> <<>>, keys |-> {},
                     warnings |-> <<>>, completed |-> <<>>, os_handle |-> "open"]

\* s[field] for a key the record holds: the name is the input path.
Value(s, field) == IF field = "name" THEN s.fname ELSE "v"

\* What one invocation of a pipeline step may do: store its field and declare
\* it in s["output"], declare a key "nokey" it never stores, or raise.
StepOutcomes == {"field", "nokey", "raise"}

\* the warnings the k-th step reports with its field: none by the first
\* step, two by each later one
StepWarnings(k) == IF k = 1 THEN <<>> ELSE <<"w", "w">>

\* process(s, process_params): the step mutates the record in place.
ApplyStep(s, k, outcome) ==
  CASE outcome = "field" -> [s EXCEPT !.output = Append(@, Keys[k]),
                                      !.keys = @ \cup {Keys[k]},
                                      !.warnings = @ \o StepWarnings(k)]
    [] outcome = "nokey" -> [s EXCEPT !.output = Append(@, "nokey")]
    [] OTHER             -> s

\* pc: where the task is; gate: the branch worker took at line 44; k: the
\* step it is at; s: its record; ret: what worker returned; via: the callback
\* the pool has invoked for it
NoTask == [pc |-> "unsubmitted", gate |-> "none", k |-> 0, s |-> NoRecord,
           ret |-> "None", via |-> "none"]

(* ------------------------- text of the report -------------------------- *)
RECURSIVE JoinPipe(_)
\* "|".join(s["warnings"])
JoinPipe(ws) ==
  IF ws = <<>> THEN <<>>
  ELSE IF Len(ws) = 1 THEN <<ws[1]>>
  ELSE <<ws[1], "PIPE">> \o JoinPipe(Tail(ws))

RECURSIVE HeaderFields(_)
\* for field in s["output"]: csv_report.write(field + "\t")
HeaderFields(output) ==
  IF output = <<>> THEN <<>>
  ELSE <<Head(output), "TAB">> \o HeaderFields(Tail(output))

\* the header row: the output field names, then "warnings", then "\n"
HeaderText(s) == HeaderFields(s.output) \o <<"warnings", "NL">>

RECURSIVE RowFields(_, _)
\* for field in s["output"]: csv_report.write(s[field] + "\t")
\* s[field] raises KeyError at the first absent key; what was written stays.
RowFields(s, output) ==
  IF output = <<>> THEN <<>>
  ELSE IF Head(output) \notin s.keys THEN <<>>
  ELSE <<Value(s, Head(output)), "TAB">> \o RowFields(s, Tail(output))

\* does s[field] raise for some field of s["output"]
RaisesKeyError(s) == \E i \in DOMAIN s.output : s.output[i] \notin s.keys

\* csv_report.write("|".join(s["warnings"]) + "\n"), reached only without KeyError
RowEnd(s) == IF RaisesKeyError(s) THEN <<>> ELSE JoinPipe(s.warnings) \o <<"NL">>

\* everything lines 84-87 write for s
RowText(s) == RowFields(s, s.output) \o RowEnd(s)

\* if nfiledone and nfiledone % args.batch == 0   (x % inf is x)
NeedsRotation(n, b) == n # 0 /\ (IF b = Unbounded THEN n = 0 ELSE n % b = 0)

\* the header test without the mode: a header also when appending
NeedsHeader_AnyMode(f, flag) == f

\* if first and overwrite_flag == "w"
NeedsHeader(f, flag) == f /\ flag = "w"

\* open(name, mode): "w" truncates or creates, "a" keeps or creates
Open(reps, name, mode) ==
  [reps EXCEPT ![name] = IF mode = "w" \/ ~@.exists
                          THEN [exists |-> TRUE, data |-> <<>>] ELSE @]

\* the name of the report file for a batch index
ReportName(b) == <<"results", b>>

(* ------------------------- the idempotency gate ------------------------ *)
\* Gate with the force test dropped: an existing directory is always removed
Gate_IgnoresForce(isdir, force) ==
  IF isdir THEN "rmtree" ELSE "makeDir"

\* lines 44-51: which branch worker takes for its output directory
Gate(isdir, force) ==
  IF isdir THEN (IF force THEN "rmtree" ELSE "skip") ELSE "makeDir"

\* tasks occupying a worker process
Running == {i \in DOMAIN tasks : tasks[i].pc \in {"rmtree", "makeDir", "steps"}}

(* -------------------------------- Init --------------------------------- *)
InitFrom(lists) ==
  /\ args \in [force : BOOLEAN, batch : BatchSizes, nthreads : {1, 2}]
  /\ config \in Configs
  /\ files \in lists
  /\ pc = "load_pipeline"
  /\ processQueue = <<>>
  /\ pool = "undefined"
  /\ filei = 1
  /\ outRoot \in BOOLEAN
  /\ dirs \in [BaseNames -> {"absent", "old"}]
  /\ \A b \in BaseNames :
       dirs[b] = "old" => outRoot /\ \E i \in DOMAIN files : basename(files[i]) = b
  /\ \E prev \in {NoFile, ReportName(0)} :
       /\ (~outRoot => prev = NoFile)
       /\ reports = [n \in ReportNames |->
                       IF n = prev THEN [exists |-> TRUE, data |-> OldReport]
                       ELSE [exists |-> FALSE, data |-> <<>>]]
  /\ csv_report = [name |-> NoFile, open |-> FALSE]
  /\ overwrite_flag = "unset"
  /\ batch = 1
  /\ nfiledone = 0
  /\ first = TRUE
  /\ failed = <<>>
  /\ summary = <<>>
  /\ tasks = [i \in DOMAIN files |-> NoTask]
  /\ order = <<>>
  /\ start = [outRoot |-> outRoot, dirs |-> dirs, reports |-> reports,
              run |-> 1, stale |-> {}]

Init == InitFrom(FileLists)

(* ---------------------------- load_pipeline ---------------------------- *)
\* both try blocks of load_pipeline pass for this step reference
Resolvable(ref) ==
  /\ ModuleExists(mod_name(ref))
  /\ FunctionExists(mod_name(ref), func_name(ref))

\* load_pipeline without the getattr check: only a missing module raises
LoadRaises_ModuleOnly(cfg) == \E i \in DOMAIN cfg : ~ModuleExists(mod_name(cfg[i]))

\* load_pipeline raises NameError at the first reference it cannot resolve
LoadRaises(cfg) == \E i \in DOMAIN cfg : ~Resolvable(cfg[i])

\* the queue filled from the last configured step to the first
load_pipeline_Reversed(cfg) ==
  [i \in DOMAIN cfg |-> func_name(cfg[Len(cfg) + 1 - i])]

\* the lprocessQueue it returns otherwise (the functions, by __name__)
load_pipeline(cfg) == [i \in DOMAIN cfg |-> func_name(cfg[i])]

(* ------------------------------ __main__ ------------------------------- *)
mainvars == <<pc, processQueue, pool, filei>>
aggvars == <<csv_report, overwrite_flag, batch, nfiledone, first, failed, summary>>
fsvars == <<outRoot, dirs, reports>>

\* line 156: processQueue = load_pipeline(config); NameError ends the run
LoadPipeline ==
  /\ pc = "load_pipeline"
  /\ IF LoadRaises(config)
       THEN pc' = "aborted" /\ UNCHANGED processQueue
       ELSE pc' = "Pool" /\ processQueue' = load_pipeline(config)
  /\ UNCHANGED <<pool, filei, tasks, order>>
  /\ UNCHANGED <<aggvars, fsvars, runvars>>

\* lines 157-159: the pool is created only when nthreads > 1
CreatePool ==
  /\ pc = "Pool"
  /\ pool' = IF args.nthreads > 1 THEN "running" ELSE pool
  /\ pc' = "makeDir"
  /\ UNCHANGED <<processQueue, filei, tasks, order>>
  /\ UNCHANGED <<aggvars, fsvars, runvars>>

\* line 162: makeDir(args.outdir)
MakeOutdir ==
  /\ pc = "makeDir"
  /\ outRoot' = TRUE
  /\ pc' = "open"
  /\ UNCHANGED <<processQueue, pool, filei, tasks, order, dirs, reports>>
  /\ UNCHANGED <<aggvars, runvars>>

\* glob.glob(args.outdir + os.sep + "results*.tsv")
PreviousReports == {n \in ReportNames : reports[n].exists}

\* the mode without the force test: any previous report means append
OverwriteFlag_IgnoresForce(previous, force) ==
  IF previous # {} THEN "a" ELSE "w"

\* lines 164-172
OverwriteFlag(previous, force) ==
  IF previous # {} THEN (IF force THEN "w" ELSE "a") ELSE "w"

\* lines 174-177: the first report file
FirstReport(b) == IF b # Unbounded THEN ReportName(batch) ELSE ReportName(0)

\* lines 164-177
OpenReport ==
  /\ pc = "open"
  /\ LET flag == OverwriteFlag(PreviousReports, args.force)
         name == FirstReport(args.batch)
     IN  /\ overwrite_flag' = flag
         /\ reports' = Open(reports, name, flag)
         /\ csv_report' = [name |-> name, open |-> TRUE]
  /\ pc' = "dispatch"
  /\ UNCHANGED <<processQueue, pool, filei, tasks, order, outRoot, dirs>>
  /\ UNCHANGED <<batch, nfiledone, first, failed, summary, runvars>>

\* lines 180-182: one pool.apply_async per file; `pool` is unbound when
\* nthreads <= 1, and the NameError ends the run
Submit ==
  /\ pc = "dispatch"
  /\ filei <= Len(files)
  /\ IF pool = "undefined"
       THEN pc' = "crashed" /\ UNCHANGED <<filei, tasks>>
       ELSE /\ tasks' = [tasks EXCEPT ![filei].pc = "queued"]
            /\ filei' = filei + 1
            /\ UNCHANGED pc
  /\ UNCHANGED <<processQueue, pool, order>>
  /\ UNCHANGED <<aggvars, fsvars, runvars>>

\* line 185: pool.close()
PoolClose ==
  /\ pc = "dispatch"
  /\ filei > Len(files)
  /\ IF pool = "undefined"
       THEN pc' = "crashed" /\ UNCHANGED pool
       ELSE pc' = "join" /\ pool' = "closed"
  /\ UNCHANGED <<processQueue, filei, tasks, order>>
  /\ UNCHANGED <<aggvars, fsvars, runvars>>

\* a job leaves the pool's cache when its callback has returned
Outstanding == {i \in DOMAIN tasks : tasks[i].pc # "handled"}

\* line 186: pool.join() returns once no job is outstanding
PoolJoin ==
  /\ pc = "join"
  /\ Outstanding = {}
  /\ pc' = "close"
  /\ UNCHANGED <<processQueue, pool, filei, tasks, order>>
  /\ UNCHANGED <<aggvars, fsvars, runvars>>

\* lines 187-188: csv_report.close(), move the log
CloseReport ==
  /\ pc = "close"
  /\ csv_report' = [csv_report EXCEPT !.open = FALSE]
  /\ pc' = "summary"
  /\ UNCHANGED <<processQueue, pool, filei, tasks, order>>
  /\ UNCHANGED <<overwrite_flag, batch, nfiledone, first, failed, summary>>
  /\ UNCHANGED <<fsvars, runvars>>

\* lines 190-194: the loop logs one entry per element of `failed`;
\* logging.info takes no `sep` keyword, so a first element raises TypeError
Summary ==
  /\ pc = "summary"
  /\ IF failed = <<>>
       THEN pc' = "done" /\ summary' = failed
       ELSE pc' = "crashed" /\ UNCHANGED summary
  /\ UNCHANGED <<processQueue, pool, filei, tasks, order>>
  /\ UNCHANGED <<csv_report, overwrite_flag, batch, nfiledone, first, failed>>
  /\ UNCHANGED <<fsvars, runvars>>

(* ------------------------------- worker -------------------------------- *)
\* the directory without the part named after the file: one for all tasks
fname_outdir_Shared(i) == "a"

\* line 43: args.outdir + os.sep + os.path.basename(fname)
fname_outdir(i) == basename(files[i])

\* a pool process takes the task and runs lines 43-51 up to the branch:
\* the skip branch logs a warning and returns None
WorkerStart(i) ==
  /\ tasks[i].pc = "queued"
  /\ Cardinality(Running) < args.nthreads
  /\ LET branch == Gate(dirs[fname_outdir(i)] # "absent", args.force)
     IN  tasks' = [tasks EXCEPT ![i].pc = IF branch = "skip" THEN "returned" ELSE branch,
                                ![i].gate = branch,
                                ![i].ret = "None"]
  /\ UNCHANGED <<mainvars, aggvars, fsvars, order, runvars>>

\* lines 46 and 51: shutil.rmtree(fname_outdir), then return (None);
\* rmtree raises when the directory is gone
WorkerRmtree(i) ==
  /\ tasks[i].pc = "rmtree"
  /\ IF dirs[fname_outdir(i)] = "absent"
       THEN /\ tasks' = [tasks EXCEPT ![i].pc = "raised"]
            /\ UNCHANGED dirs
       ELSE /\ dirs' = [dirs EXCEPT ![fname_outdir(i)] = "absent"]
            /\ tasks' = [tasks EXCEPT ![i].pc = "returned", ![i].ret = "None"]
  /\ UNCHANGED <<mainvars, aggvars, outRoot, reports, order, runvars>>

\* lines 52-55: makeDir(fname_outdir) tolerates an existing directory;
\* then the record is constructed
WorkerMakeDir(i) ==
  /\ tasks[i].pc = "makeDir"
  /\ dirs' = [dirs EXCEPT ![fname_outdir(i)] = IF @ = "absent" THEN "new" ELSE @]
  /\ tasks' = [tasks EXCEPT ![i].pc = "steps", ![i].k = 1,
                            ![i].s = BaseImage(files[i])]
  /\ UNCHANGED <<mainvars, aggvars, outRoot, reports, order, runvars>>

\* the loop without line 61: the handle stays in the record
AfterStep_KeepsHandle(s, k) ==
  [s EXCEPT !.completed = Append(@, processQueue[k])]

\* line 59, and after the last step lines 61-62
AfterStep(s, k) ==
  LET s1 == [s EXCEPT !.completed = Append(@, processQueue[k])]
  IN  IF k = Len(processQueue) THEN [s1 EXCEPT !.os_handle = "None"] ELSE s1

\* a worker that removes the output directory when a step raises
WorkerStep_CleansUp(i) ==
  /\ tasks[i].pc = "steps"
  /\ \E outcome \in StepOutcomes :
       LET k == tasks[i].k IN
       IF outcome = "raise"
         THEN /\ tasks' = [tasks EXCEPT ![i].pc = "raised", ![i].s = NoRecord]
              /\ dirs' = [dirs EXCEPT ![fname_outdir(i)] = "absent"]
         ELSE /\ tasks' = [tasks EXCEPT
                     ![i].s = AfterStep(ApplyStep(@, k, outcome), k),
                     ![i].k = k + 1,
                     ![i].pc = IF k = Len(processQueue) THEN "returned" ELSE "steps",
                     ![i].ret = IF k = Len(processQueue) THEN "record" ELSE "None"]
              /\ UNCHANGED dirs
  /\ UNCHANGED <<mainvars, aggvars, outRoot, reports, order, runvars>>

\* lines 57-62: one iteration of the loop; an exception of the step ends
\* the task, the return of the last step ends it with the record
WorkerStep(i) ==
  /\ tasks[i].pc = "steps"
  /\ \E outcome \in StepOutcomes :
       LET k == tasks[i].k IN
       IF outcome = "raise"
         THEN tasks' = [tasks EXCEPT ![i].pc = "raised", ![i].s = NoRecord]
         ELSE tasks' = [tasks EXCEPT
                ![i].s = AfterStep(ApplyStep(@, k, outcome), k),
                ![i].k = k + 1,
                ![i].pc = IF k = Len(processQueue) THEN "returned" ELSE "steps",
                ![i].ret = IF k = Len(processQueue) THEN "record" ELSE "None"]
  /\ UNCHANGED <<mainvars, aggvars, fsvars, order, runvars>>

(* --------------------------- worker_callback --------------------------- *)
\* lines 65-88 for a record s.  A KeyError leaves worker_callback with what
\* it wrote so far; the pool then never marks the job as finished.
HandleResult(i) ==
  /\ tasks[i].pc = "returned"
  /\ IF tasks[i].ret = "None"
       THEN /\ tasks' = [tasks EXCEPT ![i].pc = "handled",
                                      ![i].via = "worker_callback"]
            /\ UNCHANGED <<reports, csv_report, batch, first, order>>
       ELSE LET s      == tasks[i].s
                rotate == NeedsRotation(nfiledone, args.batch)
                batch1 == IF rotate THEN batch + 1 ELSE batch
                name1  == IF rotate THEN ReportName(batch1) ELSE csv_report.name
                reps1  == IF rotate THEN Open(reports, name1, overwrite_flag)
                                    ELSE reports
                first1 == IF rotate THEN TRUE ELSE first
                header == NeedsHeader(first1, overwrite_flag)
                text   == (IF header THEN HeaderText(s) ELSE <<>>) \o RowText(s)
            IN  /\ batch' = batch1
                /\ csv_report' = [name |-> name1, open |-> TRUE]
                /\ first' = IF header THEN FALSE ELSE first1
                /\ reports' = [reps1 EXCEPT ![name1].data = @ \o text]
                /\ order' = Append(order, [task |-> i, report |-> name1])
                /\ tasks' = [tasks EXCEPT
                       ![i].pc = IF RaisesKeyError(s) THEN "stuck" ELSE "handled",
                       ![i].via = "worker_callback"]
  /\ UNCHANGED <<mainvars, overwrite_flag, nfiledone, failed, summary>>
  /\ UNCHANGED <<outRoot, dirs, runvars>>

(* ----------------------------- worker_error ---------------------------- *)
\* lines 91-94: print("ERROR!"); print(e)
HandleError(i) ==
  /\ tasks[i].pc = "raised"
  /\ tasks' = [tasks EXCEPT ![i].pc = "handled", ![i].via = "worker_error"]
  /\ UNCHANGED <<mainvars, aggvars, fsvars, order, runvars>>

(* -------------------------------- Next --------------------------------- *)
Next ==
  \/ LoadPipeline
  \/ CreatePool
  \/ MakeOutdir
  \/ OpenReport
  \/ Submit
  \/ PoolClose
  \/ PoolJoin
  \/ CloseReport
  \/ Summary
  \/ \E i \in DOMAIN tasks : WorkerStart(i)
  \/ \E i \in DOMAIN tasks : WorkerRmtree(i)
  \/ \E i \in DOMAIN tasks : WorkerMakeDir(i)
  \/ \E i \in DOMAIN tasks : WorkerStep(i)
  \/ \E i \in DOMAIN tasks : HandleResult(i)
  \/ \E i \in DOMAIN tasks : HandleError(i)

Spec == Init /\ [][Next]_vars

\* A run over three files with two workers and a pipeline of two steps.
Init3 ==
  /\ InitFrom({AllPaths})
  /\ args.nthreads = 2 /\ args.batch = Unbounded
  /\ config = <<"m.f:2", "m.g">>
  /\ \A n \in ReportNames : ~reports[n].exists
  /\ dirs["a"] = "absent"

Spec3 == Init3 /\ [][Next]_vars

\* The processes of a run keep running: __main__, the pool's workers and its
\* result-handling thread each take their next step when they have one, and
\* every call of a pipeline step returns or raises.
FairSpec == Init /\ [][Next]_vars /\ WF_vars(Next)

(* ------------------------- one run after another ----------------------- *)
\* how many times the program is started on the same input and output
MaxRuns == 2

\* the tasks of this run in which a pipeline step raised
FailedInStep == {i \in DOMAIN tasks : tasks[i].via = "worker_error" /\ tasks[i].k >= 1}

\* The program is started again after a finished run, with or without
\* --force: the module globals (lines 34-38) are as at import, the output
\* root is as the finished run left it.  `start.stale` keeps the files whose
\* step failed in an earlier run with no run with --force since.
Rerun ==
  /\ pc = "done"
  /\ start.run < MaxRuns
  /\ \E force \in BOOLEAN :
       LET left == [b \in BaseNames |-> IF dirs[b] = "absent" THEN "absent" ELSE "old"]
       IN  /\ args' = [args EXCEPT !.force = force]
           /\ dirs' = left
           /\ start' = [outRoot |-> outRoot, dirs |-> left, reports |-> reports,
                        run |-> start.run + 1,
                        stale |-> IF force THEN {}
                                  ELSE start.stale \cup FailedInStep]
  /\ pc' = "load_pipeline"
  /\ processQueue' = <<>>
  /\ pool' = "undefined"
  /\ filei' = 1
  /\ csv_report' = [name |-> NoFile, open |-> FALSE]
  /\ overwrite_flag' = "unset"
  /\ batch' = 1
  /\ nfiledone' = 0
  /\ first' = TRUE
  /\ failed' = <<>>
  /\ summary' = <<>>
  /\ tasks' = [i \in DOMAIN files |-> NoTask]
  /\ order' = <<>>
  /\ UNCHANGED <<config, files, outRoot, reports>>

\* the first run starts on an empty output location, with two workers
InitRuns ==
  /\ InitFrom({<<"x/a">>, <<"x/a", "x/b">>})
  /\ args.nthreads = 2 /\ args.batch = Unbounded
  /\ ~outRoot

NextRuns == Next \/ Rerun

SpecRuns == InitRuns /\ [][NextRuns]_vars

(* ---------------- the callbacks, one statement group at a time --------- *)
\* The pool runs callback and error_callback of every task in its one
\* result-handling thread: a callback starts when none is in progress.
\* a pool that hands every result to its callback at once
HandlerIdle_Concurrent == TRUE

\* lines 181-182: the callbacks are given to the pool, which calls them
HandlerIdle == \A j \in DOMAIN tasks : tasks[j].pc # "callback"

\* lines 65-82: the None test, the rotation and the header
CallbackEnter(i) ==
  /\ tasks[i].pc = "returned"
  /\ HandlerIdle
  /\ IF tasks[i].ret = "None"
       THEN /\ tasks' = [tasks EXCEPT ![i].pc = "handled",
                                      ![i].via = "worker_callback"]
            /\ UNCHANGED <<reports, csv_report, batch, first, order>>
       ELSE LET s      == tasks[i].s
                rotate == NeedsRotation(nfiledone, args.batch)
                batch1 == IF rotate THEN batch + 1 ELSE batch
                name1  == IF rotate THEN ReportName(batch1) ELSE csv_report.name
                reps1  == IF rotate THEN Open(reports, name1, overwrite_flag)
                                    ELSE reports
                first1 == IF rotate THEN TRUE ELSE first
                header == NeedsHeader(first1, overwrite_flag)
            IN  /\ batch' = batch1
                /\ csv_report' = [name |-> name1, open |-> TRUE]
                /\ first' = IF header THEN FALSE ELSE first1
                /\ reports' = [reps1 EXCEPT ![name1].data =
                                 @ \o (IF header THEN HeaderText(s) ELSE <<>>)]
                /\ order' = Append(order, [task |-> i, report |-> name1])
                /\ tasks' = [tasks EXCEPT ![i].pc = "callback"]
  /\ UNCHANGED <<mainvars, overwrite_flag, nfiledone, failed, summary>>
  /\ UNCHANGED <<outRoot, dirs, runvars>>

\* lines 84-88: the fields of the row, the warnings and the flush
CallbackRow(i) ==
  /\ tasks[i].pc = "callback"
  /\ reports' = [reports EXCEPT ![csv_report.name].data = @ \o RowText(tasks[i].s)]
  /\ tasks' = [tasks EXCEPT
         ![i].pc = IF RaisesKeyError(tasks[i].s) THEN "stuck" ELSE "handled",
         ![i].via = "worker_callback"]
  /\ UNCHANGED <<mainvars, aggvars, outRoot, dirs, order, runvars>>

\* lines 91-94, called by the same thread
ErrorEnter(i) == HandlerIdle /\ HandleError(i)

NextCb ==
  \/ LoadPipeline
  \/ CreatePool
  \/ MakeOutdir
  \/ OpenReport
  \/ Submit
  \/ PoolClose
  \/ PoolJoin
  \/ CloseReport
  \/ Summary
  \/ \E i \in DOMAIN tasks : WorkerStart(i)
  \/ \E i \in DOMAIN tasks : WorkerRmtree(i)
  \/ \E i \in DOMAIN tasks : WorkerMakeDir(i)
  \/ \E i \in DOMAIN tasks : WorkerStep(i)
  \/ \E i \in DOMAIN tasks : CallbackEnter(i)
  \/ \E i \in DOMAIN tasks : CallbackRow(i)
  \/ \E i \in DOMAIN tasks : ErrorEnter(i)

SpecCb == Init /\ [][NextCb]_vars

TypeOK ==
  /\ pc \in {"load_pipeline", "aborted", "Pool", "makeDir", "open", "dispatch",
             "join", "close", "summary", "done", "crashed"}
  /\ csv_report.name \in ReportNames \cup {NoFile}

(* ----------------------- reading a report back ------------------------- *)
\* position of the first sep in text, 0 when there is none
FirstIndex(text, sep) ==
  IF \E p \in DOMAIN text : text[p] = sep
    THEN CHOOSE p \in DOMAIN text :
           text[p] = sep /\ \A q \in 1..(p - 1) : text[q] # sep
    ELSE 0

RECURSIVE SplitOn(_, _)
\* text.split(sep): n separators give n + 1 pieces
SplitOn(text, sep) ==
  LET p == FirstIndex(text, sep)
  IN  IF p = 0 THEN <<text>>
      ELSE <<SubSeq(text, 1, p - 1)>> \o SplitOn(SubSeq(text, p + 1, Len(text)), sep)

\* the lines of a file, an unterminated last line included
Lines(data) ==
  LET pieces == SplitOn(data, "NL")
  IN  IF pieces[Len(pieces)] = <<>> THEN SubSeq(pieces, 1, Len(pieces) - 1)
      ELSE pieces

IsHeader(line) == line # <<>> /\ line[Len(line)] = "warnings"
IsData(line) == ~IsHeader(line)

\* the report files this run has opened so far
Opened ==
  IF pc \in {"load_pipeline", "aborted", "Pool", "makeDir", "open"} THEN {}
  ELSE IF args.batch = Unbounded THEN {ReportName(0)}
  ELSE {ReportName(b) : b \in 1..batch}

\* what this run has written to report n
Written(n) ==
  IF n \notin Opened THEN <<>>
  ELSE IF overwrite_flag = "a" /\ start.reports[n].exists
    THEN SubSeq(reports[n].data, Len(start.reports[n].data) + 1, Len(reports[n].data))
  ELSE reports[n].data

HeaderLines(n) == SelectSeq(Lines(Written(n)), IsHeader)
DataLines(n) == SelectSeq(Lines(Written(n)), IsData)

\* the fields a complete row of record s splits into
RowOf(s) ==
  [j \in 1..(Len(s.output) + 1) |->
     IF j <= Len(s.output) THEN <<Value(s, s.output[j])>> ELSE JoinPipe(s.warnings)]

\* how many lines of the run's reports are the row of record s
RowCount(s) ==
  LET hits(n) == {j \in DOMAIN DataLines(n) : SplitOn(DataLines(n)[j], "TAB") = RowOf(s)}
      Sizes == [n \in ReportNames |-> Cardinality(hits(n))]
      RECURSIVE Sum(_)
      Sum(S) == IF S = {} THEN 0
                ELSE LET n == CHOOSE m \in S : TRUE IN Sizes[n] + Sum(S \ {n})
  IN  Sum(ReportNames)

\* the task has gone through worker_callback to its end
Aggregated(i) == tasks[i].pc = "handled" /\ tasks[i].via = "worker_callback"

(* ============================== claims ================================= *)

\* C1: a file whose output directory exists when worker runs with force set
\* has the directory removed and recreated, every pipeline step run and a
\* record returned, so the report gains a row for it.
C1_ForceRegenerates ==
  \A i \in DOMAIN tasks :
    (args.force /\ tasks[i].gate = "rmtree" /\ Aggregated(i))
      => /\ tasks[i].ret = "record"
         /\ Len(tasks[i].s.completed) = Len(processQueue)
         /\ dirs[fname_outdir(i)] = "new"
         /\ RowCount(tasks[i].s) >= 1

\* C2: with batch size N, worker_callback rotates after every N rows, so no
\* report file holds more than N data rows.
C2_BatchHoldsAtMostN ==
  args.batch # Unbounded =>
    \A n \in ReportNames : Len(DataLines(n)) <= args.batch

\* C3: a file whose output directory exists when worker runs without force
\* is skipped: the directory stays as it was, no step is invoked, worker
\* returns None, no row is written for it, and worker_callback leaves the
\* aggregator (report file, header flag, batch index) as it was opened as
\* long as None is all it has received.
C3_SkipTouchesNothing ==
  /\ \A i \in DOMAIN tasks :
       (~args.force /\ start.dirs[fname_outdir(i)] = "old")
         => /\ dirs[fname_outdir(i)] = "old"
            /\ tasks[i].gate \in {"none", "skip"}
  /\ \A i \in DOMAIN tasks :
       tasks[i].gate = "skip"
         => /\ ~args.force
            /\ dirs[fname_outdir(i)] # "absent"
            /\ tasks[i].pc \in {"returned", "handled"}
            /\ tasks[i].s = NoRecord /\ tasks[i].k = 0
            /\ tasks[i].ret = "None"
            /\ tasks[i].via \in {"none", "worker_callback"}
            /\ \A n \in Opened : \A p \in DOMAIN Written(n) :
                 Written(n)[p] # files[i]
  /\ ( /\ \E i \in DOMAIN tasks : tasks[i].via = "worker_callback"
       /\ \A i \in DOMAIN tasks :
            tasks[i].via = "worker_callback" => tasks[i].ret = "None" )
       => /\ first = TRUE
          /\ batch = 1
          /\ csv_report = [name |-> FirstReport(args.batch),
                           open |-> pc \notin {"summary", "done"}]
          /\ reports = Open(start.reports, FirstReport(args.batch), overwrite_flag)

\* C3 witness: a skipped file whose empty result worker_callback has received
C3_Witness ==
  \E i \in DOMAIN tasks :
    /\ ~args.force /\ start.dirs[fname_outdir(i)] = "old"
    /\ tasks[i].gate = "skip"
    /\ Aggregated(i)

\* no two enumerated files share a base name
DistinctBaseNames ==
  \A i, j \in DOMAIN files : basename(files[i]) = basename(files[j]) => i = j

\* no per-file output directory existed before the run
NoOldDirs == \A b \in BaseNames : start.dirs[b] = "absent"

\* worker returned a record whose output keys are all present
WellFormed(i) == tasks[i].ret = "record" /\ ~RaisesKeyError(tasks[i].s)

\* C4: over files with distinct base names and no output directories from
\* before, under every interleaving and completion order, each file whose
\* pipeline completed has exactly one row in the report, none missing, none
\* duplicated.  (Stated for the well-formed records worker_callback has
\* aggregated to its end, and for the others as "at most one".)
C4_ExactlyOneRow ==
  (DistinctBaseNames /\ NoOldDirs) =>
    \A i \in DOMAIN tasks :
      /\ (Aggregated(i) /\ WellFormed(i)) => RowCount(tasks[i].s) = 1
      /\ WellFormed(i) => RowCount(tasks[i].s) <= 1

\* a pipeline step has raised for task x
StepRaised(x) == tasks[x].pc = "raised" \/ tasks[x].via = "worker_error"

\* C5: when a step raises for file X, the other files are unaffected: every
\* other file whose record worker_callback has aggregated has its row in the
\* report, and the dispatcher goes on submitting.
C5_FailureIsolated ==
  \A x \in DOMAIN tasks : StepRaised(x) =>
    /\ \A i \in DOMAIN tasks \ {x} :
         (Aggregated(i) /\ WellFormed(i)) => RowCount(tasks[i].s) = 1
    /\ pc # "crashed"

\* some step reference of the configuration cannot be resolved
BadConfig ==
  \E i \in DOMAIN config :
    \/ ~ModuleExists(mod_name(config[i]))
    \/ ~FunctionExists(mod_name(config[i]), func_name(config[i]))

\* C6: with a step reference naming a missing module or a missing function
\* the run aborts in load_pipeline: no pool, no output root, no per-file
\* directory, no report file opened, no file dispatched.
C6_BadPipelineAbortsFirst ==
  BadConfig =>
    /\ pc \in {"load_pipeline", "aborted"}
    /\ pool = "undefined"
    /\ processQueue = <<>>
    /\ outRoot = start.outRoot /\ dirs = start.dirs /\ reports = start.reports
    /\ csv_report = [name |-> NoFile, open |-> FALSE]
    /\ filei = 1 /\ \A i \in DOMAIN tasks : tasks[i] = NoTask

\* C6 witness: the run has aborted on a function missing from its module
C6_Witness ==
  /\ pc = "aborted"
  /\ \E i \in DOMAIN config :
       /\ ModuleExists(mod_name(config[i]))
       /\ ~FunctionExists(mod_name(config[i]), func_name(config[i]))
  /\ files # <<>>

\* C7: for every failed task worker_error records the file and the error in
\* `failed`, and the end-of-run summary names every failed file.
C7_FailuresRecorded ==
  \A i \in DOMAIN tasks : tasks[i].via = "worker_error" =>
    /\ \E j \in DOMAIN failed : failed[j][1] = files[i]
    /\ pc = "done" => \E j \in DOMAIN summary : summary[j][1] = files[i]

\* C8: a record whose output names an absent key fails aggregation for that
\* record only: records aggregated afterwards still get their row, and once
\* every task has been handed to its callback nothing keeps pool.join from
\* returning, so the run ends with the report closed.
C8_MalformedIsolated ==
  (\E x \in DOMAIN tasks : tasks[x].pc = "stuck") =>
    /\ \A i \in DOMAIN tasks :
         (Aggregated(i) /\ WellFormed(i)) => RowCount(tasks[i].s) = 1
    /\ (pc = "join" /\ \A i \in DOMAIN tasks : tasks[i].via # "none")
         => Outstanding = {}

\* the first record worker_callback received for report n
FirstRecord(n) ==
  LET into == SelectSeq(order, LAMBDA e : e.report = n)
  IN  tasks[into[1].task].s

\* C9: a report file holds at most one header row; a header is written only
\* in overwrite mode and only before any data row, and it is the output
\* field names of the first record aggregated into the file, then `warnings`.
C9_Header ==
  \A n \in {m \in ReportNames : reports[m].exists} :
    /\ Len(SelectSeq(Lines(reports[n].data), IsHeader)) <= 1
    /\ HeaderLines(n) # <<>> =>
         /\ overwrite_flag = "w"
         /\ IsHeader(Lines(Written(n))[1])
         /\ SplitOn(HeaderLines(n)[1], "TAB")
              = [j \in 1..(Len(FirstRecord(n).output) + 1) |->
                   IF j <= Len(FirstRecord(n).output)
                     THEN <<FirstRecord(n).output[j]>> ELSE <<"warnings">>]

\* C9 witness: a report with its header and the rows of two records whose
\* output lists differ
C9_Witness ==
  \E n \in ReportNames :
    /\ Len(HeaderLines(n)) = 1
    /\ Len(order) = 2
    /\ tasks[order[1].task].s.output # tasks[order[2].task].s.output

\* C10: every line worker_callback wrote for a record splits on the tab into
\* len(output)+1 fields: the values of the output keys in order, then the
\* warnings joined with '|'.
C10_RowsSplitIntoFields ==
  \A n \in ReportNames : \A j \in DOMAIN DataLines(n) :
    \E e \in DOMAIN order :
      /\ order[e].report = n
      /\ ~RaisesKeyError(tasks[order[e].task].s)
      /\ SplitOn(DataLines(n)[j], "TAB") = RowOf(tasks[order[e].task].s)

\* __main__ has left the dispatch loop and closed the pool
Dispatched == pc \in {"join", "close", "summary", "done"}

\* C11: for every worker count n >= 1, n = 1 included, the dispatcher
\* submits exactly one task per enumerated file to a pool of n processes:
\* the run does not end in the dispatch loop, at most n tasks occupy a worker
\* and after the loop every file has been submitted.
C11_OneTaskPerFile ==
  args.nthreads >= 1 =>
    /\ pc # "crashed"
    /\ Cardinality(Running) <= args.nthreads
    /\ Dispatched => \A i \in DOMAIN tasks : tasks[i].pc # "unsubmitted"

\* a report of an earlier run is in the output root at startup
PreviousRun == \E n \in ReportNames : start.reports[n].exists

\* is the token part of the text
Holds(text, token) == \E p \in DOMAIN text : text[p] = token

\* C12: with a report from before and no force the report is opened for
\* appending: what the files held is kept, new rows follow it and no header
\* is written; with force, or with no report from before, the report is
\* opened for writing and holds nothing of an earlier run.
C12_AppendOrOverwrite ==
  Opened # {} =>
    /\ overwrite_flag = IF PreviousRun /\ ~args.force THEN "a" ELSE "w"
    /\ overwrite_flag = "a" =>
         /\ \A n \in ReportNames : start.reports[n].exists =>
              /\ Len(reports[n].data) >= Len(start.reports[n].data)
              /\ SubSeq(reports[n].data, 1, Len(start.reports[n].data))
                   = start.reports[n].data
         /\ \A n \in Opened : HeaderLines(n) = <<>>
    /\ overwrite_flag = "w" =>
         \A n \in Opened :
           /\ ~Holds(reports[n].data, "old")
           /\ order = <<>> => reports[n].data = <<>>

\* C12 witness: a row appended after the rows of an earlier run
C12_Witness ==
  \E n \in Opened :
    /\ start.reports[n].exists /\ overwrite_flag = "a"
    /\ Len(reports[n].data) > Len(start.reports[n].data)
    /\ \E i \in DOMAIN tasks : Aggregated(i) /\ WellFormed(i)

\* the task is between its test of the directory and its return
AtWork(i) == tasks[i].pc \in {"rmtree", "makeDir", "steps"}

\* C13 as stated: no two tasks of a run are at work on the same per-file
\* output directory, whatever two distinct paths the pattern enumerated.
C13_NoSharedDirectory ==
  \A i, j \in DOMAIN tasks :
    (i # j /\ AtWork(i) /\ AtWork(j)) => fname_outdir(i) # fname_outdir(j)

\* no other enumerated path has the base name of files[i]
OwnBaseName(i) ==
  \A j \in DOMAIN files : j # i => basename(files[j]) # basename(files[i])

\* C13 amended: a file whose base name no other enumerated file has owns its
\* directory: what its task found when it tested the directory still holds
\* when it removes, creates or fills it, and nothing but this task changes it.
C13_OwnDirectoryUntouched ==
  \A i \in DOMAIN tasks :
    OwnBaseName(i) =>
      /\ tasks[i].pc = "rmtree" => dirs[fname_outdir(i)] # "absent"
      /\ tasks[i].pc = "makeDir" => dirs[fname_outdir(i)] = "absent"
      /\ tasks[i].pc = "steps" => dirs[fname_outdir(i)] = "new"
      /\ dirs[basename(files[i])] # start.dirs[basename(files[i])]
           => tasks[i].gate \in {"rmtree", "makeDir"}

\* C13 witness: two files with different base names at work at the same
\* time, each in its own fresh directory
C13_Witness ==
  \E i, j \in DOMAIN tasks :
    /\ i # j /\ OwnBaseName(i) /\ OwnBaseName(j)
    /\ tasks[i].pc = "steps" /\ tasks[j].pc = "steps"
    /\ dirs[fname_outdir(i)] = "new" /\ dirs[fname_outdir(j)] = "new"

\* C17: every record that reaches worker_callback has os_handle cleared:
\* a task that returned a record ran every step and cleared the handle after
\* the last one, and a record still in the step loop holds the handle.
C17_HandleCleared ==
  \A i \in DOMAIN tasks :
    /\ tasks[i].ret = "record" =>
         /\ tasks[i].s.os_handle = "None"
         /\ Len(tasks[i].s.completed) = Len(processQueue)
    /\ tasks[i].pc = "steps" => tasks[i].s.os_handle = "open"
    /\ \A e \in DOMAIN order : tasks[order[e].task].s.os_handle = "None"

\* C17 witness: worker_callback has taken a record
C17_Witness ==
  \E e \in DOMAIN order :
    /\ tasks[order[e].task].ret = "record"
    /\ tasks[order[e].task].via = "worker_callback"

\* C19: when worker_callback fails on an absent key the report and the
\* aggregator state are as before the invocation: no header, no part of a
\* row is written and first keeps its value.
C19_FailedAggregationLeavesNoTrace ==
  [][\A i \in DOMAIN tasks :
       (tasks[i].pc = "returned" /\ tasks'[i].pc = "stuck")
         => (reports' = reports /\ first' = first /\ batch' = batch)]_vars

\* the names of the configured steps, in the order of the configuration
ConfiguredNames == [j \in DOMAIN config |-> func_name(config[j])]

\* a pipeline step raised in the task of file i
RaisedInStep(i) == StepRaised(i) /\ tasks[i].k >= 1

\* C15: the steps of a file are invoked in the configured order, each at
\* most once, and a step is recorded in `completed` only after it returned,
\* so `completed` is always the names of a prefix of the pipeline; when a
\* step raises, no later step is invoked, no record is returned, no row is
\* written and the error handler takes the failure exactly once.
C15_StepsInOrder ==
  /\ [](\A i \in DOMAIN tasks :
          /\ tasks[i].pc = "steps" =>
               /\ tasks[i].k \in 1..Len(config)
               /\ tasks[i].s.completed = SubSeq(ConfiguredNames, 1, tasks[i].k - 1)
          /\ tasks[i].ret = "record" => tasks[i].s.completed = ConfiguredNames
          /\ RaisedInStep(i) =>
               /\ tasks[i].k <= Len(config)
               /\ tasks[i].ret = "None" /\ tasks[i].s = NoRecord
               /\ \A e \in DOMAIN order : order[e].task # i
               /\ tasks[i].pc = "handled" => tasks[i].via = "worker_error")
  /\ [][\A i \in DOMAIN tasks :
          /\ (tasks[i].pc = "steps" /\ tasks'[i] # tasks[i]) =>
               \/ tasks'[i].pc = "raised"
               \/ /\ tasks'[i].k = tasks[i].k + 1
                  /\ tasks'[i].s.completed
                       = Append(tasks[i].s.completed, ConfiguredNames[tasks[i].k])
          /\ tasks[i].pc = "raised" =>
               tasks'[i].pc \in {"raised", "handled"}
          /\ tasks[i].pc = "handled" => tasks'[i] = tasks[i]]_vars

\* C15 witness: the second step of a file raised after the first was
\* recorded for another file, and worker_error has taken the failure
C15_Witness ==
  \E i, j \in DOMAIN tasks :
    /\ RaisedInStep(i) /\ tasks[i].via = "worker_error"
    /\ tasks[j].pc = "steps" /\ tasks[j].k = 2
    /\ tasks[j].s.completed = <<"f">> /\ ConfiguredNames = <<"f", "g">>

\* the tasks whose worker_callback is in progress
InCallback == {i \in DOMAIN tasks : tasks[i].pc = "callback"}

C16_RunFinishes ==
  /\ [](pc \in {"summary", "done"} => (Outstanding = {} /\ ~csv_report.open))
  /\ [](pc = "join" => \A i \in DOMAIN tasks : tasks[i].pc # "unsubmitted")
  /\ (pc = "dispatch" /\ pool = "running") ~> (pc = "done" /\ Outstanding = {})

====
